---- MODULE Spec2Model ----
(***************************************************************************)
(* Model of dask_gdf/groupby.py: the Groupby object, its aggregation       *)
(* pipeline (_aggregation: rename, local group-by, combine tree, fix_name) *)
(* and the cached grouping used by apply / apply_grouped.                  *)
(*                                                                         *)
(* A column name is a sequence of tokens: the column "x" is <<"x">>, the   *)
(* namespaced column '__@__x' is <<"__@__", "x">> and 'sum_x' is           *)
(* <<"sum", "_", "x">>.  A frame (pygdf.DataFrame) is a record of its      *)
(* column names, its rows and the exception that aborted its computation   *)
(* ("" when there is none).  A delayed task is modelled by the value it    *)
(* evaluates to, together with the inputs it was built from.               *)
(***************************************************************************)
EXTENDS Integers, Sequences, FiniteSets, TLC

\* ---------------------------------------------------------------- bounds
MaxParts == 3
MaxRows == 2
KeyVals == {1, 2}
XVals == {1, 2}

\* ------------------------------------------------------------- constants
magic_token == "__@__"
DefaultSplitEvery == 4
None == 0

\* ------------------------------------------------------- generic helpers
Range(s) == {s[i] : i \in 1..Len(s)}

RECURSIVE SumSeq(_)
SumSeq(s) == IF s = <<>> THEN 0 ELSE Head(s) + SumSeq(Tail(s))

RECURSIVE MinSeq(_)
MinSeq(s) ==
    IF Len(s) = 1 THEN s[1]
    ELSE LET m == MinSeq(Tail(s)) IN IF s[1] < m THEN s[1] ELSE m

RECURSIVE MaxSeq(_)
MaxSeq(s) ==
    IF Len(s) = 1 THEN s[1]
    ELSE LET m == MaxSeq(Tail(s)) IN IF s[1] > m THEN s[1] ELSE m

RECURSIVE Flatten(_)
Flatten(ss) == IF ss = <<>> THEN <<>> ELSE Head(ss) \o Flatten(Tail(ss))

\* lexicographic order on equally long integer tuples
RECURSIVE LexLess(_, _)
LexLess(a, b) ==
    IF a = <<>> THEN FALSE
    ELSE IF a[1] # b[1] THEN a[1] < b[1]
    ELSE LexLess(Tail(a), Tail(b))

RECURSIVE SortTuples(_)
SortTuples(S) ==
    IF S = {} THEN <<>>
    ELSE LET m == CHOOSE x \in S : \A y \in S \ {x} : LexLess(x, y)
         IN <<m>> \o SortTuples(S \ {m})

\* ------------------------------------------------------------------ frames
Frame(cols, rows) == [err |-> "", cols |-> cols, rows |-> rows]
ErrFrame(e) == [err |-> e, cols |-> <<>>, rows |-> <<>>]
EmptyFrame == Frame(<<>>, <<>>)

HasCol(df, k) == \E i \in 1..Len(df.cols) : df.cols[i] = k
ColIndex(df, k) == CHOOSE i \in 1..Len(df.cols) : df.cols[i] = k
Column(df, k) == [r \in 1..Len(df.rows) |-> df.rows[r][ColIndex(df, k)]]

\* newdf[newk] = vals : a new column is appended, an existing one overwritten
SetColumn(newdf, newk, vals) ==
    IF HasCol(newdf, newk)
    THEN [newdf EXCEPT !.rows =
            [r \in 1..Len(vals) |-> [newdf.rows[r] EXCEPT ![ColIndex(newdf, newk)] = vals[r]]]]
    ELSE [newdf EXCEPT
            !.cols = Append(newdf.cols, newk),
            !.rows = [r \in 1..Len(vals) |->
                        Append(IF newdf.cols = <<>> THEN <<>> ELSE newdf.rows[r], vals[r])]]

\* the loop "for k in df.columns: newdf[newnames[k]] = df[k]"
RECURSIVE CopyColumns(_, _, _, _)
CopyColumns(df, newnames, i, newdf) ==
    IF i > Len(df.cols) THEN newdf
    ELSE CopyColumns(df, newnames, i + 1,
                     SetColumn(newdf, newnames[i], Column(df, df.cols[i])))

\* pygdf.concat(dfs): the rows of frames with the same columns, in order
concat(dfs) ==
    IF \E i \in 1..Len(dfs) : dfs[i].err # ""
    THEN ErrFrame(dfs[CHOOSE i \in 1..Len(dfs) :
                        dfs[i].err # "" /\ \A j \in 1..(i - 1) : dfs[j].err = ""].err)
    ELSE IF dfs = <<>> THEN ErrFrame("ValueError")
    ELSE Frame(dfs[1].cols, Flatten([i \in 1..Len(dfs) |-> dfs[i].rows]))

\* ------------------------------------------------------------ column names
HasMagic(k) == \E i \in 1..Len(k) : k[i] = magic_token
\* k.split(magic_token, 1)[1]: what follows the first marker
AfterMagic(k) ==
    LET i == CHOOSE j \in 1..Len(k) : k[j] = magic_token /\ \A h \in 1..(j - 1) : k[h] # magic_token
    IN SubSeq(k, i + 1, Len(k))


\* ----------------------------------------------------- exact arithmetic
\* A float result is kept exact: num/den in lowest terms with den > 0, or
\* the square root of it (root); den = 0 stands for a non-finite value
\* (inf or nan).
RECURSIVE GCD(_, _)
GCD(a, b) == IF b = 0 THEN a ELSE GCD(b, a % b)

Abs(a) == IF a < 0 THEN -a ELSE a

Rat(n, d) ==
    IF d = 0 THEN [num |-> 0, den |-> 0, root |-> FALSE]
    ELSE LET g == GCD(Abs(n), Abs(d))
             s == IF d < 0 THEN -1 ELSE 1
         IN [num |-> s * (n \div g), den |-> s * (d \div g), root |-> FALSE]

\* np.sqrt(v): a negative radicand gives nan
Sqrt(v) ==
    IF v.den = 0 \/ v.num < 0 THEN Rat(0, 0) ELSE [v EXCEPT !.root = TRUE]

\* -------------------------------------------- the local group-by kernel
\* pygdf's DataFrame.groupby(by=..., method=...) is an external kernel; it
\* is modelled by its contract: one output row per distinct key, in key
\* order, the key columns first and then one column per statistic.
GroupKey(df, by, r) == [i \in 1..Len(by) |-> df.rows[r][ColIndex(df, by[i])]]

GroupKeys(df, by) == SortTuples({GroupKey(df, by, r) : r \in 1..Len(df.rows)})

\* the indices of the rows of one group, ascending
RECURSIVE GroupIdx(_, _, _, _)
GroupIdx(df, by, key, r) ==
    IF r > Len(df.rows) THEN <<>>
    ELSE (IF GroupKey(df, by, r) = key THEN <<r>> ELSE <<>>) \o GroupIdx(df, by, key, r + 1)

GroupValues(df, by, key, col) ==
    LET idx == GroupIdx(df, by, key, 1)
    IN [i \in 1..Len(idx) |-> df.rows[idx[i]][ColIndex(df, col)]]

Statistic(fn, vals) ==
    CASE fn = "count" -> Len(vals)
      [] fn = "sum" -> SumSeq(vals)
      [] fn = "min" -> MinSeq(vals)
      [] fn = "max" -> MaxSeq(vals)
      [] fn = "sum_of_squares" -> SumSeq([i \in 1..Len(vals) |-> vals[i] * vals[i]])

\* The kernel names a statistic column after its source column; which form
\* it uses is not decided in groupby.py: mean's combine reads '<col>_<fn>'
\* (used when several functions are requested, the bare column name
\* otherwise), and drop_prefix expects a function prefix in front of the
\* marker ('<fn>_<col>').
StatName(naming, col, fn, multi) ==
    IF naming = "prefix" THEN <<fn, "_">> \o col
    ELSE IF multi THEN col \o <<"_", fn>>
    ELSE col

\* the columns of a frame that are not grouping keys, in the frame's column
\* order: the columns the kernel computes statistics of
ValueColumns(df, by) == SelectSeq(df.cols, LAMBDA k : k \notin Range(by))

\* items: the statistics to compute, each [col, fn, multi]
KernelAggregate(df, by, items, naming) ==
    IF df.err # "" THEN df
    ELSE IF \E i \in 1..Len(by) : ~HasCol(df, by[i]) THEN ErrFrame("KeyError")
    ELSE IF \E i \in 1..Len(items) : ~HasCol(df, items[i].col) THEN ErrFrame("KeyError")
    ELSE LET keys == GroupKeys(df, by)
             names == [i \in 1..Len(items) |->
                         StatName(naming, items[i].col, items[i].fn, items[i].multi)]
             stat(g, i) == Statistic(items[i].fn, GroupValues(df, by, keys[g], items[i].col))
             src == Frame(by \o names,
                          [g \in 1..Len(keys) |-> keys[g] \o [i \in 1..Len(items) |-> stat(g, i)]])
         IN CopyColumns(src, src.cols, 1, EmptyFrame)

\* g.count(), g.sum(), g.min(), g.max(): one statistic of every value column
KernelStat(df, by, fn, naming) ==
    IF df.err # "" THEN df
    ELSE LET vc == ValueColumns(df, by)
         IN KernelAggregate(df, by, [i \in 1..Len(vc) |-> [col |-> vc[i], fn |-> fn, multi |-> FALSE]],
                            naming)

\* g.agg([f1, f2, ...]): every function of every value column
KernelAggList(df, by, fns, naming) ==
    IF df.err # "" THEN df
    ELSE LET vc == ValueColumns(df, by)
             n == Len(fns)
         IN KernelAggregate(df, by,
                [i \in 1..(Len(vc) * n) |->
                    [col |-> vc[((i - 1) \div n) + 1], fn |-> fns[((i - 1) % n) + 1],
                     multi |-> n > 1]],
                naming)

\* g.agg({col: fn or [f1, ...]}): mapping is the dict's items in order, each
\* [col, val] with val = [isstr, fns]
RECURSIVE MappingItems(_)
MappingItems(mapping) ==
    IF mapping = <<>> THEN <<>>
    ELSE LET m == Head(mapping)
         IN [i \in 1..Len(m.val.fns) |->
                [col |-> m.col, fn |-> m.val.fns[i], multi |-> Len(m.val.fns) > 1]]
            \o MappingItems(Tail(mapping))

KernelAggMap(df, by, mapping, naming) ==
    KernelAggregate(df, by, MappingItems(mapping), naming)

\* g.apply(function) hands each group's rows to the function and
\* concatenates what it returns.  GroupChunk is the frame of one group.
GroupChunk(df, by, key) ==
    LET idx == GroupIdx(df, by, key, 1)
    IN Frame(df.cols, [i \in 1..Len(idx) |-> df.rows[idx[i]]])

\* g.apply(function): with no group the function is never called and the
\* result has no rows
KernelApply(df, by, results) ==
    IF df.err # "" THEN df
    ELSE IF \E i \in 1..Len(by) : ~HasCol(df, by[i]) THEN ErrFrame("KeyError")
    ELSE IF results = <<>> THEN EmptyFrame
    ELSE concat(results)

\* ------------------------------------- the combine functions of mean, var
\* outdf = df[:1].loc[:, list(self._by)].reset_index()
FirstKeys(df, by) == Frame(by, <<GroupKey(df, by, 1)>>)

\* mean.combine, lines 187-193: the loop over valcols from position i on
RECURSIVE MeanCombine(_, _, _, _)
MeanCombine(df, valcols, i, outdf) ==
    IF i > Len(valcols) THEN outdf
    ELSE LET k == valcols[i]
             sumk == k \o <<"_", "sum">>
             countk == k \o <<"_", "count">>
         IN IF ~HasCol(df, sumk) \/ ~HasCol(df, countk) THEN ErrFrame("KeyError")
            ELSE MeanCombine(df, valcols, i + 1,
                    SetColumn(outdf, k, <<Rat(SumSeq(Column(df, sumk)), SumSeq(Column(df, countk)))>>))

\* var = the_sos / div - (mu ** 2) * the_count / div, with mu = the_sum / the_count
Variance(the_sos, the_sum, the_count, ddof) ==
    LET div == the_count - ddof
    IN IF the_count = 0 THEN Rat(0, 0)
       ELSE Rat(the_sos * the_count - the_sum * the_sum, the_count * div)

\* _compute_std_or_var.combine, lines 213-229
RECURSIVE VarCombine(_, _, _, _, _, _)
VarCombine(df, valcols, ddof, do_std, i, outdf) ==
    IF i > Len(valcols) THEN outdf
    ELSE LET k == valcols[i]
             sosk == k \o <<"_", "sum_of_squares">>
             sumk == k \o <<"_", "sum">>
             countk == k \o <<"_", "count">>
         IN IF ~HasCol(df, sosk) \/ ~HasCol(df, sumk) \/ ~HasCol(df, countk)
            THEN ErrFrame("KeyError")
            ELSE LET var == Variance(SumSeq(Column(df, sosk)), SumSeq(Column(df, sumk)),
                                     SumSeq(Column(df, countk)), ddof)
                 IN VarCombine(df, valcols, ddof, do_std, i + 1,
                        SetColumn(outdf, k, <<IF do_std THEN Sqrt(var) ELSE var>>))

\* ------------------------------------------- chunk and combine functions
\* The lambdas handed to _aggregation, as data:
\*   [kind |-> "stat", fn]            lambda g: g.<fn>()
\*   [kind |-> "agg_list", fns]       lambda g: g.agg([...])
\*   [kind |-> "agg_map", mapping]    lambda df: df.agg(mapping)
\*   [kind |-> "mean"]                lambda g: g.apply(mean.combine)
\*   [kind |-> "var", ddof, do_std]   lambda g: g.apply(_compute_std_or_var.combine)
\* valcols are the value columns of self._df, which the combine closures of
\* mean and var capture.
Call(f, df, by, valcols, naming) ==
    CASE f.kind = "stat" -> KernelStat(df, by, f.fn, naming)
      [] f.kind = "agg_list" -> KernelAggList(df, by, f.fns, naming)
      [] f.kind = "agg_map" -> KernelAggMap(df, by, f.mapping, naming)
      [] f.kind = "mean" ->
            LET keys == IF df.err = "" /\ \A i \in 1..Len(by) : HasCol(df, by[i])
                        THEN GroupKeys(df, by) ELSE <<>>
            IN KernelApply(df, by,
                  [g \in 1..Len(keys) |->
                      LET c == GroupChunk(df, by, keys[g])
                      IN MeanCombine(c, valcols, 1, FirstKeys(c, by))])
      [] f.kind = "var" ->
            LET keys == IF df.err = "" /\ \A i \in 1..Len(by) : HasCol(df, by[i])
                        THEN GroupKeys(df, by) ELSE <<>>
            IN KernelApply(df, by,
                  [g \in 1..Len(keys) |->
                      LET c == GroupChunk(df, by, keys[g])
                      IN VarCombine(c, valcols, f.ddof, f.do_std, 1, FirstKeys(c, by))])

\* ------------------------------------------------- _aggregation's helpers
renameAll(df, valcols) ==
    IF df.err # "" THEN df
    ELSE CopyColumns(df, [i \in 1..Len(df.cols) |-> <<magic_token>> \o df.cols[i]], 1, EmptyFrame)

\* rename, lines 72-78
rename(df, valcols) ==
    IF df.err # "" THEN df
    ELSE CopyColumns(df,
            [i \in 1..Len(df.cols) |->
                IF df.cols[i] \in Range(valcols) THEN <<magic_token>> \o df.cols[i]
                ELSE df.cols[i]],
            1, EmptyFrame)

\* prefix is a dict from column name to a str or a list: a function whose
\* values are [isstr, fns], fns the str as a name or the list's elements.
\* '_'.join([prefix[name], name])
Join(p, name) == p.fns \o <<"_">> \o name

FixedName(k, prefix) ==
    IF HasMagic(k) THEN Join(prefix[AfterMagic(k)], AfterMagic(k)) ELSE k

\* the exception fix_name raises at column k, "" when there is none
FixNameError(k, prefix) ==
    IF ~HasMagic(k) THEN ""
    ELSE IF AfterMagic(k) \notin DOMAIN prefix THEN "KeyError"
    ELSE IF ~prefix[AfterMagic(k)].isstr THEN "TypeError"
    ELSE ""

\* fix_name, lines 82-92
fix_name(df, prefix) ==
    IF df.err # "" THEN df
    ELSE IF \E i \in 1..Len(df.cols) : FixNameError(df.cols[i], prefix) # ""
    THEN ErrFrame(FixNameError(
            df.cols[CHOOSE i \in 1..Len(df.cols) :
                        /\ FixNameError(df.cols[i], prefix) # ""
                        /\ \A j \in 1..(i - 1) : FixNameError(df.cols[j], prefix) = ""],
            prefix))
    ELSE CopyColumns(df, [i \in 1..Len(df.cols) |-> FixedName(df.cols[i], prefix)], 1, EmptyFrame)

\* the new name drop_prefix gives a column, lines 99-103
DroppedName(k) == IF HasMagic(k) THEN <<magic_token>> \o AfterMagic(k) ELSE k

\* drop_prefix, lines 96-105
drop_prefix(df) ==
    IF df.err # "" THEN df
    ELSE CopyColumns(df, [i \in 1..Len(df.cols) |-> DroppedName(df.cols[i])], 1, EmptyFrame)

\* do_local_groupby, lines 107-109
do_local_groupby(df, chunk, by, valcols, naming) ==
    drop_prefix(Call(chunk, df, by, valcols, naming))

\* do_combine, lines 111-114
do_combine(dfs, combine, by, valcols, naming) ==
    drop_prefix(Call(combine, concat(dfs), by, valcols, naming))

\* meta, lines 116-117, from the zero-row sample self._df._meta
Meta(cols, chunk, combine, prefix, by, valcols, naming) ==
    LET m1 == drop_prefix(Call(chunk, rename(Frame(cols, <<>>), valcols), by, valcols, naming))
    IN fix_name(Call(combine, m1, by, valcols, naming), prefix)

\* --------------------------------------------------------------- inputs
key == <<"key">>
x == <<"x">>
y == <<"y">>

\* the tables tried: columns, grouping keys and the rows a partition may hold
Schemas ==
    { [cols |-> <<key, x>>, by |-> <<key>>],
      [cols |-> <<key, x, y>>, by |-> <<key>>],
      [cols |-> <<key, x, y>>, by |-> <<key, x>>] }

RowsOf(cols) ==
    IF Len(cols) = 2 THEN {<<k, v>> : k \in KeyVals, v \in XVals}
    ELSE {<<k, 1, k + 1>> : k \in KeyVals}

LexLeq(a, b) == a = b \/ LexLess(a, b)

\* the partitions of exactly n rows, rows in ascending order
RECURSIVE PartitionsOfSize(_, _)
PartitionsOfSize(rows, n) ==
    IF n = 0 THEN {<<>>}
    ELSE UNION { {<<r>> \o p : p \in {q \in PartitionsOfSize(rows, n - 1) :
                                            q = <<>> \/ LexLeq(r, q[1])}}
                 : r \in rows }

\* the tables of exactly n partitions holding at most r rows in all
RECURSIVE TablesOf(_, _, _)
TablesOf(rows, n, r) ==
    IF n = 0 THEN {<<>>}
    ELSE UNION { {<<p>> \o t : p \in PartitionsOfSize(rows, m), t \in TablesOf(rows, n - 1, r - m)}
                 : m \in 0..r }

Tables(cols) == UNION {TablesOf(RowsOf(cols), n, MaxRows) : n \in 1..MaxParts}

Namings == {"suffix", "prefix"}
Methods == {"hash"}
SplitEverys == {2, 3, DefaultSplitEvery, None}
Ddofs == {0, 1}

\* ------------------------------------------------ the Groupby object
VARIABLES
    df,             \* self._df: [cols, parts], parts the frames of its partitions
    by,             \* self._by
    method,         \* self._method
    grouped_cache,  \* self._grouped_cache: None (isnone) or the list of grouped partitions
    naming,         \* the naming convention of the external kernel
    pc,             \* where the running call stands: idle, combine, fix, done
    call,           \* the arguments of the running _aggregation call
    parts,          \* _aggregation's local 'parts': [islist, items]
    combines,       \* the do_combine tasks built by the running call, in order
    groupings,      \* how many times _do_grouping has run
    result,         \* what the last call returned or raised
    writes,         \* the callers that assigned self._grouped_cache, in order (0: the one caller)
    setorder,       \* the order in which this interpreter iterates over the set valcols
    callers         \* the concurrent callers of apply / apply_grouped, <<>> when there is one caller

vars == <<df, by, method, grouped_cache, naming, pc, call, parts, combines, groupings, result,
          writes, setorder, callers>>

NoCall == [kind |-> "none"]
NoneCache == [isnone |-> TRUE, groups |-> <<>>]
NoResult == [kind |-> "none"]
NoCallers == <<>>

\* The orders in which 'for k in <set>' may visit the members of a set: the
\* order follows the interpreter's string hashing (PYTHONHASHSEED), so any
\* permutation can be the one a run of the program sees.
SetOrders(s) == {p \in [1..Len(s) -> Range(s)] : Range(p) = Range(s)}

\* __init__, lines 14-18
Constructed ==
    /\ \E s \in Schemas :
          /\ by = s.by
          /\ \E t \in Tables(s.cols) :
                df = [cols |-> s.cols, parts |-> [i \in 1..Len(t) |-> Frame(s.cols, t[i])]]
    /\ setorder \in SetOrders(ValueColumns(df, by))
    /\ method \in Methods
    /\ naming \in Namings
    /\ grouped_cache = NoneCache
    /\ pc = "idle"
    /\ call = NoCall
    /\ parts = [islist |-> TRUE, items |-> <<>>]
    /\ combines = <<>>
    /\ groupings = 0
    /\ result = NoResult
    /\ writes = <<>>

\* an object used by one caller at a time
Init == Constructed /\ callers = NoCallers

\* valcols = set(self._df.columns) - set(self._by), lines 67, 185 and 211: a
\* set, visited in the interpreter's order
valcols == setorder

Str(name) == [isstr |-> TRUE, fns |-> name]
List(fns) == [isstr |-> FALSE, fns |-> fns]

\* prefix = {k: prefix for k in valcols}, lines 69-70
PrefixOfStr(p) == [k \in Range(valcols) |-> Str(p)]

\* a task (a Delayed): the frame it evaluates to, the generation it belongs
\* to and the number it was created under
Task(id, gen, val) == [id |-> id, gen |-> gen, val |-> val]

\* lines 119-120: one rename task and one local group-by task per partition
LocalParts(chunk) ==
    [i \in 1..Len(df.parts) |->
        Task(i, 0, do_local_groupby(rename(df.parts[i], valcols), chunk, by, valcols, naming))]

AggregationSetsCache(chunk, combine, split_every, prefix) ==
    /\ pc = "idle"
    /\ LET meta == Meta(df.cols, chunk, combine, prefix, by, valcols, naming)
       IN /\ call' = [kind |-> "aggregation", chunk |-> chunk, combine |-> combine,
                     split_every |-> split_every, prefix |-> prefix, meta |-> meta]
          /\ combines' = <<>>
          /\ IF meta.err # ""
             THEN /\ pc' = "done"
                  /\ parts' = [islist |-> TRUE, items |-> <<>>]
                  /\ result' = [kind |-> "raised", err |-> meta.err]
             ELSE /\ pc' = "combine"
                  /\ parts' = [islist |-> TRUE, items |-> LocalParts(chunk)]
                  /\ result' = NoResult
    /\ grouped_cache' = [isnone |-> FALSE, groups |-> <<>>]
    /\ UNCHANGED <<df, by, method, setorder, writes, callers, naming, groupings>>

\* _aggregation, lines 63-120: up to the test of split_every
Aggregation(chunk, combine, split_every, prefix) ==
    /\ pc = "idle"
    /\ LET meta == Meta(df.cols, chunk, combine, prefix, by, valcols, naming)
       IN /\ call' = [kind |-> "aggregation", chunk |-> chunk, combine |-> combine,
                     split_every |-> split_every, prefix |-> prefix, meta |-> meta]
          /\ combines' = <<>>
          /\ IF meta.err # ""
             THEN /\ pc' = "done"
                  /\ parts' = [islist |-> TRUE, items |-> <<>>]
                  /\ result' = [kind |-> "raised", err |-> meta.err]
             ELSE /\ pc' = "combine"
                  /\ parts' = [islist |-> TRUE, items |-> LocalParts(chunk)]
                  /\ result' = NoResult
    /\ UNCHANGED <<df, by, method, setorder, grouped_cache, writes, callers, naming, groupings>>

StatFn(fn) == [kind |-> "stat", fn |-> fn]

countCombinesWithCount ==
    Aggregation(StatFn("count"), StatFn("count"), DefaultSplitEvery, PrefixOfStr(<<"count">>))

\* count, lines 174-177
count ==
    Aggregation(StatFn("count"), StatFn("sum"), DefaultSplitEvery, PrefixOfStr(<<"count">>))

\* sum, lines 179-182
sum ==
    Aggregation(StatFn("sum"), StatFn("sum"), DefaultSplitEvery, PrefixOfStr(<<"sum">>))

\* max, lines 200-203
max ==
    Aggregation(StatFn("max"), StatFn("max"), DefaultSplitEvery, PrefixOfStr(<<"max">>))

\* min, lines 205-208
min ==
    Aggregation(StatFn("min"), StatFn("min"), DefaultSplitEvery, PrefixOfStr(<<"min">>))

\* mean, lines 184-198
mean ==
    Aggregation([kind |-> "agg_list", fns |-> <<"sum", "count">>], [kind |-> "mean"],
                None, PrefixOfStr(<<"mean">>))

\* _compute_std_or_var, lines 210-234; prefix keeps its default ''
compute_std_or_var(ddof, do_std) ==
    Aggregation([kind |-> "agg_list", fns |-> <<"sum_of_squares", "sum", "count">>],
                [kind |-> "var", ddof |-> ddof, do_std |-> do_std],
                None, PrefixOfStr(<<>>))

\* std, lines 236-237
std == \E ddof \in Ddofs : compute_std_or_var(ddof, TRUE)

\* var, lines 239-240
var == \E ddof \in Ddofs : compute_std_or_var(ddof, FALSE)

\* the mappings handed to agg: one or several functions of x, alone or
\* together with a function of another value column
AggVals == {Str(<<"sum">>), Str(<<"count">>), List(<<"sum">>), List(<<"sum", "count">>)}

AggMappings ==
    {<<[col |-> x, val |-> v]>> : v \in AggVals}
    \cup {<<[col |-> x, val |-> v], [col |-> y, val |-> Str(<<"max">>)]>> : v \in AggVals}

\* agg, lines 50-61
agg ==
    \E mapping \in AggMappings :
        /\ \A i \in 1..Len(mapping) : mapping[i].col \in Range(valcols)
        /\ LET prefix == [k \in {mapping[i].col : i \in 1..Len(mapping)} |->
                            mapping[CHOOSE i \in 1..Len(mapping) : mapping[i].col = k].val]
               marked == [i \in 1..Len(mapping) |->
                            [col |-> <<magic_token>> \o mapping[i].col, val |-> mapping[i].val]]
           IN Aggregation([kind |-> "agg_map", mapping |-> marked],
                          [kind |-> "agg_map", mapping |-> marked],
                          DefaultSplitEvery, prefix)

\* _aggregation called with another fan-in, for the statistics whose chunk
\* and combine functions count, sum, max and min hand it
StatCalls ==
    { [chunk |-> StatFn("count"), combine |-> StatFn("sum"), prefix |-> <<"count">>],
      [chunk |-> StatFn("sum"), combine |-> StatFn("sum"), prefix |-> <<"sum">>],
      [chunk |-> StatFn("max"), combine |-> StatFn("max"), prefix |-> <<"max">>],
      [chunk |-> StatFn("min"), combine |-> StatFn("min"), prefix |-> <<"min">>] }

aggregation ==
    \E c \in StatCalls, split_every \in SplitEverys :
        Aggregation(c.chunk, c.combine, split_every, PrefixOfStr(c.prefix))

Min(a, b) == IF a < b THEN a ELSE b

Vals(tasks) == [i \in 1..Len(tasks) |-> tasks[i].val]

\* the generation of a combine's result: one above its inputs'
NextGen(tasks) == 1 + MaxSeq([i \in 1..Len(tasks) |-> tasks[i].gen])

\* A working state of the combine stage: the list 'parts' (islist tells
\* whether it still is a list), and the do_combine tasks built so far.
Work(islist, items, built) == [islist |-> islist, items |-> items, built |-> built]

\* do_combine(tasks, method) as a task: its number follows the partitions'
\* and the earlier combines'
CombineTask(tasks, built, combine) ==
    Task(Len(df.parts) + Len(built) + 1, NextGen(tasks),
         do_combine(Vals(tasks), combine, by, valcols, naming))

LoopConditionOffByOne(items) == Len(items) > 2

LoopConditionNonEmpty(items) == Len(items) > 0

\* line 122: while len(parts) > 1
LoopCondition(items) == Len(items) > 1

LoopBodyWholeList(w, split_every, combine) ==
    LET tasks == w.items
        out == CombineTask(tasks, w.built, combine)
    IN Work(TRUE, <<out>>, Append(w.built, [ins |-> tasks, out |-> out]))

LoopBodyPrepends(w, split_every, combine) ==
    LET n == Min(split_every, Len(w.items))
        tasks == SubSeq(w.items, 1, n)
        remains == SubSeq(w.items, n + 1, Len(w.items))
        out == CombineTask(tasks, w.built, combine)
    IN Work(TRUE, <<out>> \o remains, Append(w.built, [ins |-> tasks, out |-> out]))

LoopBodyKeepsLastInput(w, split_every, combine) ==
    LET n == Min(split_every, Len(w.items))
        tasks == SubSeq(w.items, 1, n)
        remains == SubSeq(w.items, n, Len(w.items))
        out == CombineTask(tasks, w.built, combine)
    IN Work(TRUE, remains \o <<out>>, Append(w.built, [ins |-> tasks, out |-> out]))

\* lines 123-125: the body of the while loop
LoopBody(w, split_every, combine) ==
    LET n == Min(split_every, Len(w.items))
        tasks == SubSeq(w.items, 1, n)
        remains == SubSeq(w.items, n + 1, Len(w.items))
        out == CombineTask(tasks, w.built, combine)
    IN Work(TRUE, remains \o <<out>>, Append(w.built, [ins |-> tasks, out |-> out]))

\* line 127: parts = do_combine(parts, method), a task and not a list
SingleCombine(w, combine) ==
    LET out == CombineTask(w.items, w.built, combine)
    IN Work(FALSE, <<out>>, Append(w.built, [ins |-> w.items, out |-> out]))

FinishWithoutFixName(w, prefix, meta) ==
    IF w.islist
    THEN [kind |-> "table", meta |-> meta,
          parts |-> [i \in 1..Len(w.items) |-> w.items[i].val]]
    ELSE [kind |-> "raised", err |-> "TypeError"]

\* lines 129-130: [do_fix_name(p) for p in parts] and from_delayed.
\* Iterating over a Delayed of unspecified length raises TypeError.
Finish(w, prefix, meta) ==
    IF w.islist
    THEN [kind |-> "table", meta |-> meta,
          parts |-> [i \in 1..Len(w.items) |-> fix_name(w.items[i].val, prefix)]]
    ELSE [kind |-> "raised", err |-> "TypeError"]

\* lines 121-125 run to the end of the loop
RECURSIVE RunLoop(_, _, _)
RunLoop(w, split_every, combine) ==
    IF LoopCondition(w.items) THEN RunLoop(LoopBody(w, split_every, combine), split_every, combine)
    ELSE w

\* what _aggregation returns or raises for the table of this object
AggregationResult(chunk, combine, split_every, prefix) ==
    LET meta == Meta(df.cols, chunk, combine, prefix, by, valcols, naming)
        w0 == Work(TRUE, LocalParts(chunk), <<>>)
    IN IF meta.err # "" THEN [kind |-> "raised", err |-> meta.err]
       ELSE IF split_every # None THEN Finish(RunLoop(w0, split_every, combine), prefix, meta)
       ELSE Finish(SingleCombine(w0, combine), prefix, meta)

\* lines 122-125: one iteration of the while loop
TreeStep ==
    /\ pc = "combine"
    /\ call.split_every # None
    /\ LoopCondition(parts.items)
    /\ LET w == LoopBody(Work(parts.islist, parts.items, combines), call.split_every, call.combine)
       IN /\ parts' = [islist |-> w.islist, items |-> w.items]
          /\ combines' = w.built
    /\ UNCHANGED <<df, by, method, setorder, grouped_cache, writes, callers, naming, pc, call, groupings, result>>

\* lines 126-127: the single combine when split_every is None
SingleShot ==
    /\ pc = "combine"
    /\ call.split_every = None
    /\ LET w == SingleCombine(Work(parts.islist, parts.items, combines), call.combine)
       IN /\ parts' = [islist |-> w.islist, items |-> w.items]
          /\ combines' = w.built
    /\ pc' = "fix"
    /\ UNCHANGED <<df, by, method, setorder, grouped_cache, writes, callers, naming, call, groupings, result>>

\* lines 129-130, after the loop has ended or the single combine was built
FixNames ==
    /\ \/ pc = "fix"
       \/ pc = "combine" /\ call.split_every # None /\ ~LoopCondition(parts.items)
    /\ pc' = "done"
    /\ result' = Finish(Work(parts.islist, parts.items, combines), call.prefix, call.meta)
    /\ UNCHANGED <<df, by, method, setorder, grouped_cache, writes, callers, naming, call, parts, combines, groupings>>

\* ------------------------------------------------ grouping and apply
\* stable insertion of a row into rows sorted on column c
RECURSIVE InsertSorted(_, _, _)
InsertSorted(rows, r, c) ==
    IF rows = <<>> THEN <<r>>
    ELSE IF r[c] < rows[1][c] THEN <<r>> \o rows
    ELSE <<rows[1]>> \o InsertSorted(Tail(rows), r, c)

RECURSIVE SortRows(_, _)
SortRows(rows, c) ==
    IF rows = <<>> THEN <<>>
    ELSE InsertSorted(SortRows(SubSeq(rows, 1, Len(rows) - 1), c), rows[Len(rows)], c)

\* self._df.sort_values(firstkey, ignore_index=True).to_delayed(): the rows
\* in the order of the first key, in as many partitions of the same sizes
sort_values(table, firstkey) ==
    LET c == CHOOSE i \in 1..Len(table.cols) : table.cols[i] = firstkey
        rows == SortRows(Flatten([i \in 1..Len(table.parts) |-> table.parts[i].rows]), c)
        start(i) == SumSeq([j \in 1..(i - 1) |-> Len(table.parts[j].rows)])
    IN [i \in 1..Len(table.parts) |->
            Frame(table.cols, SubSeq(rows, start(i) + 1, start(i) + Len(table.parts[i].rows)))]

do_groupingUnsorted ==
    [i \in 1..Len(df.parts) |-> [df |-> df.parts[i], by |-> by, method |-> method]]

\* _do_grouping, lines 31-48: one group-by task per sorted partition
do_grouping ==
    LET groups == sort_values(df, by[1])
    IN [i \in 1..Len(groups) |-> [df |-> groups[i], by |-> by, method |-> method]]

\* the function handed to apply: the group's keys and its number of rows
UserFunction(c, keys) == SetColumn(FirstKeys(c, keys), <<"n">>, <<Len(c.rows)>>)

\* the function handed to apply_grouped: a new column numbering the rows
\* of the group
GroupedFunction(c) == SetColumn(c, <<"out">>, [i \in 1..Len(c.rows) |-> i])

\* apply_to_group of apply, lines 153-155
apply_to_group(grp) ==
    LET keys == GroupKeys(grp.df, grp.by)
    IN KernelApply(grp.df, grp.by,
          [g \in 1..Len(keys) |-> UserFunction(GroupChunk(grp.df, grp.by, keys[g]), grp.by)])

\* apply_to_group of apply_grouped, lines 165-167
apply_grouped_to_group(grp) ==
    LET keys == GroupKeys(grp.df, grp.by)
    IN KernelApply(grp.df, grp.by,
          [g \in 1..Len(keys) |-> GroupedFunction(GroupChunk(grp.df, grp.by, keys[g]))])

GroupedAlwaysRebuilt ==
    [cache |-> [isnone |-> FALSE, groups |-> do_grouping], built |-> 1]

\* _grouped, lines 20-29: the cache after the property has been read, and
\* how many times _do_grouping ran for it
Grouped ==
    IF grouped_cache.isnone
    THEN [cache |-> [isnone |-> FALSE, groups |-> do_grouping], built |-> 1]
    ELSE [cache |-> grouped_cache, built |-> 0]

\* apply, lines 150-158
apply ==
    /\ pc = "idle"
    /\ grouped_cache' = Grouped.cache
    /\ groupings' = groupings + Grouped.built
    /\ result' = [kind |-> "table", meta |-> EmptyFrame,
                  parts |-> [i \in 1..Len(Grouped.cache.groups) |->
                                apply_to_group(Grouped.cache.groups[i])]]
    /\ call' = [kind |-> "apply", built |-> Grouped.built]
    /\ pc' = "done"
    /\ parts' = [islist |-> TRUE, items |-> <<>>]
    /\ combines' = <<>>
    /\ writes' = IF Grouped.built = 1 THEN Append(writes, 0) ELSE writes
    /\ UNCHANGED <<df, by, method, setorder, naming, callers>>

\* apply_grouped, lines 160-170
apply_grouped ==
    /\ pc = "idle"
    /\ grouped_cache' = Grouped.cache
    /\ groupings' = groupings + Grouped.built
    /\ result' = [kind |-> "table", meta |-> EmptyFrame,
                  parts |-> [i \in 1..Len(Grouped.cache.groups) |->
                                apply_grouped_to_group(Grouped.cache.groups[i])]]
    /\ call' = [kind |-> "apply_grouped", built |-> Grouped.built]
    /\ pc' = "done"
    /\ parts' = [islist |-> TRUE, items |-> <<>>]
    /\ combines' = <<>>
    /\ writes' = IF Grouped.built = 1 THEN Append(writes, 0) ELSE writes
    /\ UNCHANGED <<df, by, method, setorder, naming, callers>>

\* the call has returned (or raised) and the caller takes the next one
Return ==
    /\ pc = "done"
    /\ pc' = "idle"
    /\ call' = NoCall
    /\ result' = NoResult
    /\ parts' = [islist |-> TRUE, items |-> <<>>]
    /\ combines' = <<>>
    /\ UNCHANGED <<df, by, method, setorder, grouped_cache, writes, callers, naming, groupings>>

Next ==
    \/ count \/ sum \/ max \/ min \/ mean \/ std \/ var \/ agg \/ aggregation
    \/ TreeStep \/ SingleShot \/ FixNames
    \/ apply \/ apply_grouped \/ Return

Spec == Init /\ [][Next]_vars

\* ------------------------------------- two callers of the _grouped property
\* Two threads call apply or apply_grouped on the same object before the
\* groups are cached.  Each caller runs the property _grouped (lines 27-29)
\* statement by statement; nothing in the code orders the two.
Callers == {1, 2}
Ops == {"apply", "apply_grouped"}

\* a caller about to read self._grouped
Caller(op) == [pc |-> "test", op |-> op, built |-> <<>>, got |-> 0, groups |-> <<>>, out |-> <<>>]

ConcInit == Constructed /\ callers \in [Callers -> {Caller(op) : op \in Ops}]

\* line 27: if self._grouped_cache is None
TestCache(t) ==
    /\ callers[t].pc = "test"
    /\ callers' = [callers EXCEPT ![t].pc = IF grouped_cache.isnone THEN "build" ELSE "return"]
    /\ UNCHANGED <<df, by, method, setorder, grouped_cache, naming, pc, call, parts, combines, groupings,
                   result, writes>>

\* line 28, right-hand side: self._do_grouping()
BuildGrouping(t) ==
    /\ callers[t].pc = "build"
    /\ callers' = [callers EXCEPT ![t].pc = "set", ![t].built = do_grouping]
    /\ groupings' = groupings + 1
    /\ UNCHANGED <<df, by, method, setorder, grouped_cache, naming, pc, call, parts, combines, result, writes>>

\* line 28, the assignment to self._grouped_cache
SetCache(t) ==
    /\ callers[t].pc = "set"
    /\ grouped_cache' = [isnone |-> FALSE, groups |-> callers[t].built]
    /\ writes' = Append(writes, t)
    /\ callers' = [callers EXCEPT ![t].pc = "return"]
    /\ UNCHANGED <<df, by, method, setorder, naming, pc, call, parts, combines, groupings, result>>

\* line 29: return self._grouped_cache, the list the last assignment put there
ReturnCache(t) ==
    /\ callers[t].pc = "return"
    /\ callers' = [callers EXCEPT ![t].pc = "apply",
                                  ![t].got = writes[Len(writes)],
                                  ![t].groups = grouped_cache.groups]
    /\ UNCHANGED <<df, by, method, setorder, grouped_cache, naming, pc, call, parts, combines, groupings,
                   result, writes>>

\* lines 157-158 and 169-170: one task per group of the list the caller got
ApplyGroups(t) ==
    /\ callers[t].pc = "apply"
    /\ LET g == callers[t].groups
       IN callers' = [callers EXCEPT
                        ![t].pc = "done",
                        ![t].out = [i \in 1..Len(g) |->
                                      IF callers[t].op = "apply" THEN apply_to_group(g[i])
                                      ELSE apply_grouped_to_group(g[i])]]
    /\ UNCHANGED <<df, by, method, setorder, grouped_cache, naming, pc, call, parts, combines, groupings,
                   result, writes>>

ConcNext ==
    \E t \in Callers :
        \/ TestCache(t) \/ BuildGrouping(t) \/ SetCache(t) \/ ReturnCache(t) \/ ApplyGroups(t)

ConcSpec == ConcInit /\ [][ConcNext]_vars

\* ------------------------------------------------------------ properties
\* the whole table as one frame, and the aggregate computed directly over it
WholeTable == concat(df.parts)

DirectRows(fn) ==
    LET keys == GroupKeys(WholeTable, by)
    IN [g \in 1..Len(keys) |->
          keys[g] \o [i \in 1..Len(ValueColumns(df, by)) |->
                        Statistic(fn, GroupValues(WholeTable, by, keys[g],
                                                  ValueColumns(df, by)[i]))]]

IsAggregation == call.kind = "aggregation"
IsStatCall == IsAggregation /\ call.chunk.kind = "stat"

\* C1: count(), sum(), min() and max() (fan-in 4) return, for every
\* partitioning of the table, one row per group holding the aggregate of the
\* group computed directly over the whole table.
PartitionInvariance ==
    (pc = "done" /\ IsStatCall /\ call.split_every = DefaultSplitEvery)
        => /\ result.kind = "table"
           /\ Len(result.parts) = 1
           /\ result.parts[1].err = ""
           /\ result.parts[1].rows = DirectRows(call.chunk.fn)

\* a count whose group has its rows in two partitions
PartitionInvarianceWitness ==
    /\ pc = "done" /\ IsStatCall /\ call.split_every = DefaultSplitEvery
    /\ call.chunk.fn = "count"
    /\ Len(df.parts) = 2
    /\ df.parts[1].rows = << <<1, 1>> >>
    /\ df.parts[2].rows = << <<1, 2>> >>
    /\ result.kind = "table"
    /\ result.parts[1].rows = << <<1, 2>> >>

\* C2: the result of _aggregation for count, sum, min and max is the same
\* for every fan-in: 2, 3, 4 and None.
FanInInvariance ==
    (pc = "done" /\ IsStatCall)
        => \A se \in SplitEverys :
              AggregationResult(call.chunk, call.combine, se, call.prefix) = result

InLoop == pc = "combine" /\ call.split_every # None

\* C3: with a fan-in of 2 or more the combine loop ends: every iteration
\* leaves a shorter, non-empty working list, so a table of n partitions takes
\* at most n - 1 iterations, and when the loop has stopped the list holds
\* exactly one partial result.
TreeTerminates ==
    /\ [][(InLoop /\ pc' = "combine")
            => (1 <= Len(parts'.items) /\ Len(parts'.items) < Len(parts.items))]_vars
    /\ [](InLoop => (parts.islist /\ Len(parts.items) + Len(combines) <= Len(df.parts)))
    /\ []((pc = "done" /\ IsAggregation /\ call.split_every # None /\ result.kind = "table")
            => (parts.islist /\ Len(parts.items) = 1))

\* a loop of two iterations that has ended
TreeTerminatesWitness ==
    /\ pc = "done" /\ IsAggregation /\ call.split_every = 2
    /\ Len(df.parts) = 3
    /\ Len(combines) = 2
    /\ Len(parts.items) = 1

\* C4: with fan-in disabled one combine over all the partial results is
\* built, and what is handed on to fix_name is a list of that one result.
SingleShotShape ==
    (pc = "fix" /\ call.split_every = None)
        => /\ Len(combines) = 1
           /\ combines[1].ins = LocalParts(call.chunk)
           /\ parts.islist
           /\ Len(parts.items) = 1

IsAggCall == IsAggregation /\ call.chunk.kind = "agg_map"

\* the names function + "_" + column of the pairs a mapping requests
RECURSIVE RequestedNames(_)
RequestedNames(mapping) ==
    IF mapping = <<>> THEN <<>>
    ELSE LET m == Head(mapping)
         IN [i \in 1..Len(m.val.fns) |-> <<m.val.fns[i], "_">> \o AfterMagic(m.col)]
            \o RequestedNames(Tail(mapping))

\* C5: agg, for any combination of functions requested on a value column,
\* returns one column per requested (function, column) pair, named
\* function + "_" + column, after the grouping keys.
NamingRoundTrip ==
    (pc = "done" /\ IsAggCall)
        => /\ result.kind = "table"
           /\ \A i \in 1..Len(result.parts) :
                 /\ result.parts[i].err = ""
                 /\ result.parts[i].cols = by \o RequestedNames(call.chunk.mapping)

Distinct(names) ==
    \A i, j \in 1..Len(names) : i # j => names[i] # names[j]

\* what the kernel hands drop_prefix in the local group-by of partition i
LocalRaw(i) == Call(call.chunk, rename(df.parts[i], valcols), by, valcols, naming)

\* what the kernel hands drop_prefix in a combine step
CombineRaw(c) == Call(call.combine, concat(Vals(c.ins)), by, valcols, naming)

DroppedNames(f) == [j \in 1..Len(f.cols) |-> DroppedName(f.cols[j])]

\* C6: the statistic columns of one value column keep distinct names: neither
\* drop_prefix, after the local aggregation and after every combine, nor
\* fix_name gives two columns the same name.
NoCollision ==
    /\ (IsAggregation /\ pc = "combine")
          => \A i \in 1..Len(df.parts) :
                LocalRaw(i).err = "" => Distinct(DroppedNames(LocalRaw(i)))
    /\ (IsAggregation /\ pc \in {"combine", "fix"})
          => \A c \in 1..Len(combines) :
                CombineRaw(combines[c]).err = "" => Distinct(DroppedNames(CombineRaw(combines[c])))
    /\ (IsAggregation /\ pc = "done" /\ result.kind = "table")
          => \A i \in 1..Len(result.parts) : Distinct(result.parts[i].cols)

\* C7: the columns of the schema inferred from the zero-row sample are, in
\* the same order, the columns of every partition of the result the call
\* returns, whatever the number of partitions and the fan-in; the schema is
\* the one computed from the columns, the keys and the functions alone.
SchemaAgreement ==
    (pc = "done" /\ IsAggregation /\ result.kind = "table")
        => /\ result.meta.err = ""
           /\ result.meta = Meta(df.cols, call.chunk, call.combine, call.prefix, by, valcols, naming)
           /\ \A i \in 1..Len(result.parts) :
                 /\ result.parts[i].err = ""
                 /\ result.parts[i].cols = result.meta.cols

\* one partition, so that no combine runs on the data, and a schema of the
\* keys followed by the prefixed value column
SchemaAgreementWitness ==
    /\ pc = "done" /\ IsAggregation /\ result.kind = "table"
    /\ Len(df.parts) = 1 /\ df.parts[1].rows # <<>>
    /\ combines = <<>>
    /\ result.meta.cols = <<key, <<"count", "_", "x">> >>
    /\ result.parts[1].cols = <<key, <<"count", "_", "x">> >>

IsMomentCall == IsAggregation /\ call.combine.kind \in {"mean", "var"}

\* the mean, variance or standard deviation of a group of the whole table
Moment(vals) ==
    IF call.combine.kind = "mean" THEN Rat(SumSeq(vals), Len(vals))
    ELSE LET v == Variance(Statistic("sum_of_squares", vals), SumSeq(vals), Len(vals),
                           call.combine.ddof)
         IN IF call.combine.do_std THEN Sqrt(v) ELSE v

MomentRows ==
    LET keys == GroupKeys(WholeTable, by)
    IN [g \in 1..Len(keys) |->
          keys[g] \o [i \in 1..Len(ValueColumns(df, by)) |->
                        Moment(GroupValues(WholeTable, by, keys[g], ValueColumns(df, by)[i]))]]

\* C8: mean(), var(ddof) and std(ddof) return for every group the mean, the
\* ddof-variance and its square root of the group's values in the whole
\* table, however the rows are split over the partitions.
MeanVarSufficiency ==
    (pc = "done" /\ IsMomentCall)
        => /\ result.kind = "table"
           /\ Len(result.parts) = 1
           /\ result.parts[1].err = ""
           /\ result.parts[1].rows = MomentRows

IsApply == call.kind \in {"apply", "apply_grouped"}

\* C9: the grouping is built once, on the first apply or apply_grouped; later
\* calls use the cached groups, and the cache, once set, is never reset or
\* replaced.
MemoizedGrouping ==
    /\ [](groupings <= 1 /\ (grouped_cache.isnone <=> groupings = 0))
    /\ []((pc = "done" /\ IsApply) => (~grouped_cache.isnone /\ groupings = 1))
    /\ [][~grouped_cache.isnone => (grouped_cache' = grouped_cache /\ groupings' = groupings)]_vars
    /\ [][(pc = "idle" /\ pc' = "done" /\ call'.kind \in {"apply", "apply_grouped"})
            => (call'.built = 0 <=> ~grouped_cache.isnone)]_vars

\* an apply_grouped that found the groups an earlier call had cached
MemoizedGroupingWitness ==
    /\ pc = "done" /\ call.kind = "apply_grouped" /\ call.built = 0
    /\ groupings = 1
    /\ Len(grouped_cache.groups) = 2

\* the chunk apply or apply_grouped computes from one grouped partition
ApplyChunk(grp) ==
    IF call.kind = "apply" THEN apply_to_group(grp) ELSE apply_grouped_to_group(grp)

\* C10: apply and apply_grouped build no combine step; their result has one
\* chunk per partition of the table sorted on the first key, computed from
\* the groups of that partition alone, so that a key whose rows lie in two
\* partitions gives a group in each.
ApplyPerPartition ==
    (pc = "done" /\ IsApply)
        => LET sorted == sort_values(df, by[1])
           IN /\ result.kind = "table"
              /\ combines = <<>>
              /\ Len(result.parts) = Len(sorted)
              /\ \A i \in 1..Len(sorted) :
                    /\ result.parts[i] = ApplyChunk([df |-> sorted[i], by |-> by, method |-> method])
                    /\ call.kind = "apply"
                          => Len(result.parts[i].rows) = Len(GroupKeys(sorted[i], by))

\* key 1 has a row in each of two partitions and gives a group in each
ApplyPerPartitionWitness ==
    /\ pc = "done" /\ call.kind = "apply"
    /\ df.cols = <<key, x>>
    /\ Len(df.parts) = 2
    /\ df.parts[1].rows = << <<1, 1>> >>
    /\ df.parts[2].rows = << <<1, 2>> >>
    /\ result.parts[1].rows = << <<1, 1>> >>
    /\ result.parts[2].rows = << <<1, 1>> >>

\* C11: every combine step of the loop takes all its inputs from one
\* generation (generation 0: the local results; generation k + 1: the
\* combines of generation k) and its result belongs to the next one.
GenerationDiscipline ==
    (IsAggregation /\ call.split_every # None)
        => \A c \in 1..Len(combines) :
              /\ \A a, b \in 1..Len(combines[c].ins) :
                    combines[c].ins[a].gen = combines[c].ins[b].gen
              /\ combines[c].out.gen = combines[c].ins[1].gen + 1

\* C12: with a fan-in of 2 or more, every combine step of the loop takes at
\* least 2 and at most split_every partial results.
BoundedFanIn ==
    (IsAggregation /\ call.split_every # None)
        => \A c \in 1..Len(combines) :
              /\ 2 <= Len(combines[c].ins)
              /\ Len(combines[c].ins) <= call.split_every

\* three partitions under a fan-in of 2: two combines of two inputs each
BoundedFanInWitness ==
    /\ IsAggregation /\ call.split_every = 2
    /\ Len(df.parts) = 3
    /\ Len(combines) = 2
    /\ Len(combines[1].ins) = 2
    /\ Len(combines[2].ins) = 2

\* C13, as stated: each iteration shortens the working list by exactly
\* split_every - 1, so after k iterations over n partitions the list holds
\* n - k * (split_every - 1) partial results.
PerStepProgressExact ==
    InLoop => Len(parts.items) = Len(df.parts) - Len(combines) * (call.split_every - 1)

\* C13, amended: each iteration of the loop removes the first
\* min(split_every, len(parts)) partial results from the list, hands them to
\* one combine and appends its result at the tail, so it shortens the list by
\* min(split_every, len(parts)) - 1.
PerStepProgress ==
    [][(InLoop /\ combines' # combines)
         => LET n == Min(call.split_every, Len(parts.items))
                last == combines'[Len(combines')]
            IN /\ Len(combines') = Len(combines) + 1
               /\ last.ins = SubSeq(parts.items, 1, n)
               /\ parts'.items = SubSeq(parts.items, n + 1, Len(parts.items)) \o <<last.out>>
               /\ Len(parts'.items) = Len(parts.items) - (n - 1)]_vars

\* one iteration over a list of three under a fan-in of 4: the list is
\* shorter by 2, not by 3
PerStepProgressWitness ==
    /\ pc = "combine" /\ IsAggregation /\ call.split_every = DefaultSplitEvery
    /\ Len(df.parts) = 3
    /\ Len(combines) = 1
    /\ Len(combines[1].ins) = 3
    /\ Len(parts.items) = 1

\* C14: over a table of one partition and with fan-in enabled no combine is
\* built; the result is that partition's local aggregate after fix_name, and
\* for count, sum, min and max it is the aggregate over the whole table.
SinglePartitionFold ==
    (IsAggregation /\ call.split_every # None /\ Len(df.parts) = 1)
        => /\ combines = <<>>
           /\ (pc = "done" /\ IsStatCall) => result.kind = "table"
           /\ (pc = "done" /\ result.kind = "table")
                 => /\ result.parts = <<fix_name(LocalParts(call.chunk)[1].val, call.prefix)>>
                    /\ IsStatCall
                          => /\ result.parts[1].err = ""
                             /\ result.parts[1].rows = DirectRows(call.chunk.fn)

\* the sum of a group of two rows in the only partition
SinglePartitionFoldWitness ==
    /\ pc = "done" /\ IsStatCall /\ call.split_every = DefaultSplitEvery
    /\ call.chunk.fn = "sum"
    /\ df.cols = <<key, x>>
    /\ Len(df.parts) = 1
    /\ df.parts[1].rows = << <<1, 1>>, <<1, 2>> >>
    /\ combines = <<>>
    /\ result.kind = "table"
    /\ result.parts[1].rows = << <<1, 3>> >>

\* how many times the local result of partition leaf feeds the task numbered
\* t, directly or through the combines built so far
RECURSIVE Contribution(_, _)
Contribution(t, leaf) ==
    IF t <= Len(df.parts) THEN (IF t = leaf THEN 1 ELSE 0)
    ELSE LET ins == combines[t - Len(df.parts)].ins
         IN SumSeq([i \in 1..Len(ins) |-> Contribution(ins[i].id, leaf)])

\* the combine stage is over: the loop has ended or the one combine is built
CombineStageOver ==
    \/ pc = "fix"
    \/ pc = "combine" /\ call.split_every # None /\ ~LoopCondition(parts.items)
    \/ pc = "done"

\* C19: every partition's local result feeds the working list exactly once,
\* directly or through combines, at every point of the combine stage, with
\* fan-in enabled and disabled; when the stage is over the list is the one
\* final partial result, which every local result feeds exactly once.
ExactlyOnce ==
    (IsAggregation /\ call.meta.err = "" /\ pc \in {"combine", "fix", "done"})
        => /\ \A c \in 1..Len(combines) :
                 /\ combines[c].out.id = Len(df.parts) + c
                 /\ \A a \in 1..Len(combines[c].ins) :
                       LET t == combines[c].ins[a]
                       IN /\ t.id < combines[c].out.id
                          /\ t.id <= Len(df.parts) => t = LocalParts(call.chunk)[t.id]
           /\ \A leaf \in 1..Len(df.parts) :
                 SumSeq([i \in 1..Len(parts.items) |-> Contribution(parts.items[i].id, leaf)]) = 1
           /\ CombineStageOver => Len(parts.items) = 1

\* three partitions under a fan-in of 2: the second combine takes the third
\* local result and the result of the first combine
ExactlyOnceWitness ==
    /\ pc = "done" /\ IsAggregation /\ call.split_every = 2
    /\ Len(df.parts) = 3
    /\ Len(combines) = 2
    /\ combines[2].ins[1].id = 3
    /\ combines[2].ins[2].id = 4
    /\ parts.items[1].id = 5

\* the value column a kernel's column name was computed from
OriginalColumn(k) == CHOOSE v \in Range(valcols) : \E i \in 1..Len(k) : k[i] = v[1]

\* drop_prefix gives every column with the marker the name marker + original
\* column, and leaves the others their names
StrippedExactly(raw) ==
    \A j \in 1..Len(raw.cols) :
        DroppedName(raw.cols[j]) =
            IF HasMagic(raw.cols[j]) THEN <<magic_token>> \o OriginalColumn(raw.cols[j])
            ELSE raw.cols[j]

\* C16: drop_prefix, after the local aggregation and after every combine,
\* maps each column name holding the marker to exactly marker + original
\* column name, whatever the kernel attached for the statistic and however
\* many statistics were computed, and leaves a name without the marker
\* unchanged.
StripMarkerExact ==
    /\ (IsAggregation /\ pc = "combine")
          => \A i \in 1..Len(df.parts) :
                LocalRaw(i).err = "" => StrippedExactly(LocalRaw(i))
    /\ (IsAggregation /\ pc \in {"combine", "fix"})
          => \A c \in 1..Len(combines) :
                CombineRaw(combines[c]).err = "" => StrippedExactly(CombineRaw(combines[c]))

\* every column of frame f whose name holds no marker is a column of frame g
\* under the same name and with the same values
UnmarkedKept(f, g) ==
    \A j \in 1..Len(f.cols) :
        ~HasMagic(f.cols[j])
            => /\ HasCol(g, f.cols[j])
               /\ Column(g, f.cols[j]) = Column(f, f.cols[j])

\* C17: rename puts the marker in front of exactly the value columns and
\* leaves the grouping keys' names, the number and order of the columns and
\* the rows as they are; drop_prefix and fix_name leave every column without
\* the marker unchanged.
NamespacingFrame ==
    /\ \A i \in 1..Len(df.parts) :
          LET r == rename(df.parts[i], valcols)
          IN /\ r.err = ""
             /\ Len(r.cols) = Len(df.cols)
             /\ \A j \in 1..Len(df.cols) :
                   r.cols[j] = IF df.cols[j] \in Range(by) THEN df.cols[j]
                               ELSE <<magic_token>> \o df.cols[j]
             /\ r.rows = df.parts[i].rows
    /\ (IsAggregation /\ pc = "combine")
          => \A i \in 1..Len(df.parts) :
                LocalRaw(i).err = "" => UnmarkedKept(LocalRaw(i), drop_prefix(LocalRaw(i)))
    /\ (IsAggregation /\ pc \in {"combine", "fix"})
          => \A c \in 1..Len(combines) :
                CombineRaw(combines[c]).err = ""
                    => UnmarkedKept(CombineRaw(combines[c]), drop_prefix(CombineRaw(combines[c])))
    /\ (IsAggregation /\ pc = "done" /\ result.kind = "table")
          => \A i \in 1..Len(result.parts) :
                (parts.items[i].val.err = "" /\ result.parts[i].err = "")
                    => /\ result.parts[i] = fix_name(parts.items[i].val, call.prefix)
                       /\ UnmarkedKept(parts.items[i].val, result.parts[i])

\* a table grouped by key and x: only y is namespaced, and the result keeps
\* the names of both keys
NamespacingFrameWitness ==
    /\ pc = "done" /\ IsStatCall /\ call.chunk.fn = "sum"
    /\ df.cols = <<key, x, y>>
    /\ by = <<key, x>>
    /\ Len(df.parts) = 2
    /\ df.parts[1].rows = << <<1, 1, 2>> >>
    /\ rename(df.parts[1], valcols).cols = <<key, x, <<magic_token, "y">> >>
    /\ result.kind = "table"
    /\ result.parts[1].cols = <<key, x, <<"sum", "_", "y">> >>

\* C15: under every interleaving of two callers making the first apply or
\* apply_grouped access at the same time, self._grouped_cache is assigned at
\* most once and _do_grouping runs at most once, and both callers work on the
\* same cached list of groups.
SingleCacheWrite ==
    /\ Len(writes) <= 1
    /\ groupings <= 1
    /\ (\A t \in Callers : callers[t].pc \in {"apply", "done"})
          => \A t, u \in Callers : callers[t].got = callers[u].got

\* C18: no call changes the table, the grouping keys or the method; no step
\* of an aggregation call assigns the grouped cache or runs the grouping, and
\* what the call returns is determined by the table, the keys and the call's
\* arguments alone, whether the cache is set or not; the cache changes only
\* in apply and apply_grouped.
OnlyCacheMutable ==
    /\ [][df' = df /\ by' = by /\ method' = method]_vars
    /\ [][(call.kind = "aggregation" \/ call'.kind = "aggregation")
            => (grouped_cache' = grouped_cache /\ groupings' = groupings /\ writes' = writes)]_vars
    /\ [][grouped_cache' # grouped_cache => call'.kind \in {"apply", "apply_grouped"}]_vars
    /\ []((pc = "done" /\ IsAggregation)
            => result = AggregationResult(call.chunk, call.combine, call.split_every, call.prefix))

\* a sum returned by an object whose groups an earlier apply has cached
OnlyCacheMutableWitness ==
    /\ pc = "done" /\ IsStatCall /\ call.chunk.fn = "sum"
    /\ ~grouped_cache.isnone
    /\ writes = <<0>>
    /\ Len(df.parts) = 2
    /\ df.parts[1].rows # <<>>
    /\ result.kind = "table"
====
